---- MODULE Spec2Model ----
(***************************************************************************)
(* State-machine model of the Askaosus Matrix bot: the message handler     *)
(* (message_callback), the engagement policy (_should_respond), the        *)
(* mention detection and stripping transforms, and the reply-thread        *)
(* traversal (_get_thread_context) of src/src/bot.py.                      *)
(*                                                                         *)
(* Texts are sequences of one-character strings over a small alphabet in   *)
(* which "a" plays the part of the configured handle name ("askaosus"),    *)
(* "A" is its upper-case form, "b" is any other word character and the     *)
(* rest are non-word characters.  Fixed literals of the source (such as    *)
(* "Original message: ") are kept as single elements of a text.            *)
(***************************************************************************)
EXTENDS Integers, Sequences, FiniteSets, TLC

(***************************************************************************)
(* Bounds of the model.                                                    *)
(***************************************************************************)
NumNew == 3
NumHistoric == 0
MaxDepthLimit == 2
MaxTime == 2
MaxThreadDepth == 3
MaxTextLen == 3
MaxSearchAttempts == 2
MaxModelCalls == 3
MaxToolCalls == 2
MaxTopics == 2
MaxSearchResults == 1

(***************************************************************************)
(* Configuration values (src/src/config.py).                               *)
(***************************************************************************)
BotMentions == << <<"@", "a">>, <<"a">> >>
ReplyBehaviors == {"ignore", "mention", "watch"}

\* os.environ: a variable that is not set, and the two variables of the
\* reply behaviour; NoEnviron: the configuration is handed over as an object
Unset == "<unset>"
UnsetLimit == -1
NoEnviron == [BOT_REPLY_BEHAVIOR |-> Unset, BOT_THREAD_DEPTH_LIMIT |-> UnsetLimit]

EnvBehaviors ==
    { Unset, "ignore", "mention", "watch", "IGNORE", "Mention", "WATCH", "",
      "always", "watch " }

EnvDepthLimits == {UnsetLimit, 0, 1, 6, 20, 21, 25}

Environs ==
    [BOT_REPLY_BEHAVIOR : EnvBehaviors, BOT_THREAD_DEPTH_LIMIT : EnvDepthLimits]

\* os.getenv(key, default)
GetEnv(value, default) == IF value = Unset THEN default ELSE value

\* the value is taken as it is spelled
LowerName_AsSpelled(value) == value

\* str.lower on the values of BOT_REPLY_BEHAVIOR
LowerName(value) ==
    CASE value = "IGNORE" -> "ignore"
      [] value = "Mention" -> "mention"
      [] value = "WATCH" -> "watch"
      [] OTHER -> value

\* if self.bot_reply_behavior not in valid_reply_behaviors: raise ValueError
ValidReplyBehavior(value) == value \in {"ignore", "mention", "watch"}
BotRateLimit == 1

(***************************************************************************)
(* Characters and the primitive string operations of Python used by the   *)
(* source: str.lower, str.strip, str.split, str.join, "in", startswith.    *)
(***************************************************************************)
WordChars == {"a", "A", "b", "r"}
SpaceChars == {" ", "\n"}

IsWord(c) == c \in WordChars
IsSpace(c) == c \in SpaceChars

Lower(c) == IF c = "A" THEN "a" ELSE c

LowerText(s) == [i \in 1..Len(s) |-> Lower(s[i])]

RECURSIVE LStrip(_)
LStrip(s) ==
    IF s = <<>> THEN <<>>
    ELSE IF IsSpace(Head(s)) THEN LStrip(Tail(s)) ELSE s

RECURSIVE RStrip(_)
RStrip(s) ==
    IF s = <<>> THEN <<>>
    ELSE IF IsSpace(s[Len(s)]) THEN RStrip(SubSeq(s, 1, Len(s) - 1)) ELSE s

Strip(s) == RStrip(LStrip(s))

StartsWith(s, p) ==
    /\ Len(s) >= Len(p)
    /\ SubSeq(s, 1, Len(p)) = p

\* sub in s
Contains(s, sub) ==
    \E i \in 1..(Len(s) - Len(sub) + 1) : SubSeq(s, i, i + Len(sub) - 1) = sub

\* s.split('\n'): a sequence of lines, never empty
RECURSIVE SplitLines(_)
SplitLines(s) ==
    IF \A i \in 1..Len(s) : s[i] # "\n" THEN <<s>>
    ELSE LET k == CHOOSE i \in 1..Len(s) :
                      /\ s[i] = "\n"
                      /\ \A j \in 1..(i - 1) : s[j] # "\n"
         IN <<SubSeq(s, 1, k - 1)>> \o SplitLines(SubSeq(s, k + 1, Len(s)))

\* '\n'.join(lines)
RECURSIVE JoinLines(_)
JoinLines(lines) ==
    IF lines = <<>> THEN <<>>
    ELSE IF Len(lines) = 1 THEN lines[1]
    ELSE lines[1] \o <<"\n">> \o JoinLines(Tail(lines))

\* a line that is a Matrix fallback quote: line.strip().startswith('> ')
IsQuoteLine(line) == StartsWith(Strip(line), <<">", " ">>)

RECURSIVE KeepLines(_)
KeepLines(lines) ==
    IF lines = <<>> THEN <<>>
    ELSE IF IsQuoteLine(Head(lines)) THEN KeepLines(Tail(lines))
    ELSE <<Head(lines)>> \o KeepLines(Tail(lines))

\* quoted lines are kept
RemoveQuoteLines_Nothing(s) == Strip(s)

\* the quote filter of _check_message_mentions_bot and _clean_reply_content
RemoveQuoteLines(s) == Strip(JoinLines(KeepLines(SplitLines(s))))

(***************************************************************************)
(* Regular-expression substitutions of the source.                         *)
(***************************************************************************)
\* is position p (1-based) of s a word character; out of range is not
WordAt(s, p) == p >= 1 /\ p <= Len(s) /\ IsWord(s[p])

\* \b between positions p and p+1
Boundary(s, p) == WordAt(s, p) # WordAt(s, p + 1)

\* case-insensitive match of the literal m at position i of s
LiteralAt(s, m, i) ==
    /\ i + Len(m) - 1 <= Len(s)
    /\ \A k \in 1..Len(m) : Lower(s[i + k - 1]) = Lower(m[k])

\* re.sub(rf"\b{re.escape(mention)}\b", "", s, flags=re.IGNORECASE)
RECURSIVE SubWordFrom(_, _, _)
SubWordFrom(s, m, i) ==
    IF i > Len(s) THEN <<>>
    ELSE IF /\ LiteralAt(s, m, i)
            /\ Boundary(s, i - 1)
            /\ Boundary(s, i + Len(m) - 1)
         THEN SubWordFrom(s, m, i + Len(m))
         ELSE <<s[i]>> \o SubWordFrom(s, m, i + 1)

SubWord(s, m) == SubWordFrom(s, m, 1)

\* re.sub(rf"@{re.escape(mention[1:])}\b", "", s, flags=re.IGNORECASE)
RECURSIVE SubAtFrom(_, _, _)
SubAtFrom(s, m, i) ==
    IF i > Len(s) THEN <<>>
    ELSE IF /\ LiteralAt(s, m, i)
            /\ Boundary(s, i + Len(m) - 1)
         THEN SubAtFrom(s, m, i + Len(m))
         ELSE <<s[i]>> \o SubAtFrom(s, m, i + 1)

SubAt(s, m) == SubAtFrom(s, m, 1)

\* re.sub(r'\s+', ' ', s)
RECURSIVE CollapseSpace(_)
CollapseSpace(s) ==
    IF s = <<>> THEN <<>>
    ELSE IF IsSpace(Head(s))
         THEN <<" ">> \o CollapseSpace(LStrip(s))
         ELSE <<Head(s)>> \o CollapseSpace(Tail(s))

\* re.sub(r'<br\s*/?>', '\n', s, flags=re.IGNORECASE): length of a <br> tag
\* starting at position i, or 0
RECURSIVE SkipSpace(_, _)
SkipSpace(s, i) == IF i <= Len(s) /\ IsSpace(s[i]) THEN SkipSpace(s, i + 1) ELSE i

BrEnd(s, i) ==
    IF /\ i + 2 <= Len(s)
       /\ s[i] = "<"
       /\ Lower(s[i + 1]) = "b"
       /\ Lower(s[i + 2]) = "r"
    THEN LET j == SkipSpace(s, i + 3)
             k == IF j <= Len(s) /\ s[j] = "/" THEN j + 1 ELSE j
         IN IF k <= Len(s) /\ s[k] = ">" THEN k ELSE 0
    ELSE 0

RECURSIVE SubBrFrom(_, _)
SubBrFrom(s, i) ==
    IF i > Len(s) THEN <<>>
    ELSE IF BrEnd(s, i) # 0 THEN <<"\n">> \o SubBrFrom(s, BrEnd(s, i) + 1)
    ELSE <<s[i]>> \o SubBrFrom(s, i + 1)

\* re.sub(r'<[^>]+>', '', s): end of a tag starting at position i, or 0
TagEnd(s, i) ==
    IF /\ i + 2 <= Len(s)
       /\ s[i] = "<"
       /\ s[i + 1] # ">"
       /\ \E k \in (i + 2)..Len(s) : s[k] = ">"
    THEN CHOOSE k \in (i + 2)..Len(s) :
             /\ s[k] = ">"
             /\ \A j \in (i + 2)..(k - 1) : s[j] # ">"
    ELSE 0

RECURSIVE SubTagFrom(_, _)
SubTagFrom(s, i) ==
    IF i > Len(s) THEN <<>>
    ELSE IF TagEnd(s, i) # 0 THEN SubTagFrom(s, TagEnd(s, i) + 1)
    ELSE <<s[i]>> \o SubTagFrom(s, i + 1)

\* html.unescape restricted to the entity "&at;" standing for any character
\* reference of the handle's marker (such as "&#64;"), written here as the
\* single element "&@"
Unescape(s) == [i \in 1..Len(s) |-> IF s[i] = "&@" THEN "@" ELSE s[i]]

(***************************************************************************)
(* Mention detection and mention stripping (src/src/bot.py).               *)
(***************************************************************************)
\* tags removed and entities decoded, as done on event.formatted_body
FormattedContent(formatted_body) ==
    Strip(Unescape(SubTagFrom(SubBrFrom(formatted_body, 1), 1)))

\* the text in which mentions are looked for; <<>> is a missing or empty
\* formatted_body
ContentToCheck(message_body, formatted_body) ==
    LET chosen == IF formatted_body # <<>> /\ FormattedContent(formatted_body) # <<>>
                  THEN FormattedContent(formatted_body)
                  ELSE message_body
    IN IF chosen = message_body THEN RemoveQuoteLines(message_body) ELSE chosen

\* any(mention.lower() in content_lower for mention in bot_mentions)
AnyMention(content, bot_mentions) ==
    \E k \in 1..Len(bot_mentions) :
        Contains(LowerText(content), LowerText(bot_mentions[k]))

_check_message_mentions_bot(message_body, bot_mentions, formatted_body) ==
    AnyMention(ContentToCheck(message_body, formatted_body), bot_mentions)

\* for mention in bot_mentions: question = re.sub(rf"\b{mention}\b", "", question)
RECURSIVE RemoveMentions(_, _)
RemoveMentions(s, bot_mentions) ==
    IF bot_mentions = <<>> THEN s
    ELSE RemoveMentions(SubWord(s, Head(bot_mentions)), Tail(bot_mentions))

\* the question left of a message that mentions the bot
StripMentions(message_body, bot_mentions) ==
    Strip(RemoveMentions(message_body, bot_mentions))

RECURSIVE CleanMentions(_, _)
CleanMentions(s, bot_mentions) ==
    IF bot_mentions = <<>> THEN s
    ELSE LET m == Head(bot_mentions)
             s1 == IF Head(m) = "@" THEN SubAt(s, m) ELSE s
         IN CleanMentions(SubWord(s1, m), Tail(bot_mentions))

_clean_reply_content(message_body, bot_mentions) ==
    Strip(CollapseSpace(RemoveQuoteLines(CleanMentions(message_body, bot_mentions))))

(***************************************************************************)
(* Events, identifiers and texts built by the policy.                      *)
(***************************************************************************)
\* ids 1..NumNew are handed out, in this order, to the events that arrive and
\* to the messages the bot sends; the ids above them belong to events that
\* were in the room before the bot was started
NumIds == NumNew + NumHistoric
Ids == 1..NumIds
HistoricIds == (NumNew + 1)..NumIds

\* absence of an id: no m.in_reply_to, or a None reply target
NoId == 0

\* the m.in_reply_to of an event whose relation nobody has read yet
NotRead == -1

\* an m.in_reply_to that carries no event_id
Malformed == -2

\* the None of a question or context
NoneText == <<>>

Senders == {"bot", "user"}

\* an event of the room as the homeserver returns it; "none" marks an id
\* nothing is known about yet
NoEvent == [sender |-> "none", is_text |-> FALSE, reply_to |-> NoId]

ServerEvent(sender, is_text, reply_to) ==
    [sender |-> sender, is_text |-> is_text, reply_to |-> reply_to]

NoIncoming ==
    [event_id |-> NoId, sender |-> "none", is_text |-> FALSE, body |-> <<>>,
     formatted_body |-> <<>>, reply_to |-> NoId, server_timestamp |-> 0]

\* the body of the stored event with this id
BodyOf(id) == <<"body" \o ToString(id)>>

NonTextContent == <<"[Event - content not accessible as text]">>
NotRetrieved == <<"[Original message could not be retrieved]">>
Answer == <<"answer">>

\* bodies and formatted bodies of the incoming events
Bodies ==
    { <<"a">>,
      <<"a", " ", "b">>,
      <<"b">>,
      <<">", " ", "a", "\n", "b">> }

FormattedBodies == { <<>>, <<"b">> }

\* a formatted body comes with the body it renders
Renders(body, formatted_body) ==
    formatted_body # <<>> => body = <<"a", " ", "b">>

\* an event of another type is told apart by its type alone
Typed(is_text, body, formatted_body) ==
    is_text \/ (body = <<"b">> /\ formatted_body = <<>>)

\* an event whose origin_server_ts is 0 is told apart by that alone
Stamped(body, formatted_body, server_timestamp) ==
    server_timestamp # 0 \/ (body = <<"a", " ", "b">> /\ formatted_body = <<>>)

FetchOutcomes == {"ok", "error", "raise"}
CallOutcomes == {"ok", "raise"}

VARIABLES
    environ,                 \* os.environ as Config() reads it
    bot_reply_behavior,      \* config.bot_reply_behavior
    bot_thread_depth_limit,  \* config.bot_thread_depth_limit, 0: no such attribute
    phase,                   \* position of start()
    start_time,              \* 0 is None
    bot_message_ids,
    last_message_time,
    now,                     \* the clock
    last_id,                 \* the ids 1..last_id are in use
    server,                  \* the events seen while handling the current event
    sent_ids,                \* history: ids returned by successful sends
    entry,                   \* the entry point exercised
    pc,                      \* the await the handler is suspended at
    event,                   \* the incoming event
    current_time,
    mentioned,
    is_reply_to_bot,
    replied_to_content,
    original_fetch,          \* outcome of the fetch of the replied-to event
    original_sender,         \* sender of the fetched replied-to event
    thread_messages,
    current_event_id,
    depth,
    max_depth,
    question,
    should_respond,
    reply_to_event_id,
    outcome,                 \* how the handling of the event ended
    typing,                  \* the typing notice of this handling is shown
    pending_exc,             \* an exception on its way through the finally
    fetches,                 \* room_get_event calls for this event
    generations,             \* _process_question calls for this event
    sends,                   \* room_send calls for this event
    sent_reply_to,           \* m.in_reply_to of the content sent for this event
    waiting,                 \* invocations suspended at the fetch of _should_respond
    answered_at,             \* history: the answered events and their entry times
    max_search_attempts,     \* LLMClient.max_search_attempts
    search_attempts,
    final_response,
    message,                 \* response.choices[0].message of the last model call
    tool_calls_executed,
    llm_calls,               \* history: chat.completions.create calls
    searches,                \* history: discourse_searcher.search calls
    answer,                  \* what process_question_with_tools returned
    bot_max_search_results,  \* config.bot_max_search_results
    query,                   \* what the strategies of search() find in the query
    strategy,                \* the request search() is suspended at
    all_results,
    seen_topic_ids,
    response,                \* the response to the last request of search()
    final_results            \* what search() returned

cfgVars == <<environ, bot_reply_behavior, bot_thread_depth_limit>>
botVars == <<phase, start_time, bot_message_ids, last_message_time>>
envVars == <<now, last_id, server, sent_ids, entry>>
localVars == <<event, current_time, mentioned, is_reply_to_bot,
               replied_to_content, original_fetch, original_sender>>
threadVars == <<thread_messages, current_event_id, depth, max_depth>>
decisionVars == <<question, should_respond, reply_to_event_id>>
ioVars == <<typing, pending_exc, fetches, generations, sends, sent_reply_to>>

overlapVars == <<waiting, answered_at>>

llmVars == <<max_search_attempts, search_attempts, final_response, message,
            tool_calls_executed, llm_calls, searches, answer>>

searchVars == <<bot_max_search_results, query, strategy, all_results,
               seen_topic_ids, response, final_results>>

vars == <<cfgVars, botVars, envVars, pc, localVars, threadVars, decisionVars,
          outcome, ioVars, overlapVars, llmVars, searchVars>>

\* the id the next new event gets
Fresh(id) == id = last_id + 1 /\ id <= NumNew

\* the events that are in the room
Exists(id) == id <= last_id \/ id \in HistoricIds

(***************************************************************************)
(* Answer generation and forum search at rest.                             *)
(***************************************************************************)
NoMessage == [content |-> <<>>, tool_calls |-> <<>>]
NoQuery == [keywords |-> FALSE, english_terms |-> FALSE, important_terms |-> 0]
NoResponse == [status |-> "none", topics |-> <<>>]

ToolsIdle ==
    /\ max_search_attempts = 0
    /\ search_attempts = 0
    /\ final_response = NoneText
    /\ message = NoMessage
    /\ tool_calls_executed = FALSE
    /\ llm_calls = 0
    /\ searches = 0
    /\ answer = NoneText
    /\ bot_max_search_results = 0
    /\ query = NoQuery
    /\ strategy = 0
    /\ all_results = <<>>
    /\ seen_topic_ids = {}
    /\ response = NoResponse
    /\ final_results = <<>>

(***************************************************************************)
(* AskaosusBot.__init__: the state after construction.                     *)
(***************************************************************************)
LocalsInit ==
    /\ pc = "idle"
    /\ event = NoIncoming
    /\ current_time = 0
    /\ mentioned = FALSE
    /\ is_reply_to_bot = FALSE
    /\ replied_to_content = NoneText
    /\ original_fetch = "none"
    /\ original_sender = "none"
    /\ thread_messages = <<>>
    /\ current_event_id = NoId
    /\ depth = 0
    /\ max_depth = 0
    /\ question = NoneText
    /\ should_respond = FALSE
    /\ reply_to_event_id = NoId
    /\ outcome = "none"
    /\ typing = FALSE
    /\ pending_exc = FALSE
    /\ fetches = 0
    /\ generations = 0
    /\ sends = 0
    /\ sent_reply_to = NoId
    /\ waiting = {}
    /\ answered_at = {}

Init ==
    /\ environ = NoEnviron
    /\ ToolsIdle
    /\ bot_reply_behavior \in ReplyBehaviors
    /\ bot_thread_depth_limit \in
           IF bot_reply_behavior = "watch" THEN 0..MaxDepthLimit ELSE {0}
    /\ phase = "constructed"
    /\ start_time = 0
    /\ bot_message_ids = {}
    /\ last_message_time = 0
    /\ now = 1
    /\ last_id = 0
    /\ server = [i \in Ids |-> NoEvent]
    /\ sent_ids = {}
    /\ entry = "message_callback"
    /\ LocalsInit

(***************************************************************************)
(* The engagement policy, _should_respond.                                 *)
(***************************************************************************)
Decision(q, respond, target) ==
    [question |-> q, should_respond |-> respond, reply_to_event_id |-> target]

IgnoreDecision == Decision(NoneText, FALSE, NoId)

\* the original message is left out of the context
SingleContext_ReplyOnly(original, reply) == <<"Reply: ">> \o reply

\* "Original message: {replied_to_content}\n\nReply: {reply}"
SingleContext(original, reply) ==
    <<"Original message: ">> \o original \o <<"\n\nReply: ">> \o reply

\* replied_to_content, or the placeholder when it is None
OrPlaceholder(content) == IF content = NoneText THEN NotRetrieved ELSE content

\* "Message {i+1} ({sender_label}): {msg['content']}"
ThreadPart(i, msg) ==
    <<"Message ", ToString(i), " (",
      IF msg.is_bot_message THEN "Bot" ELSE "User", "): ">> \o msg.content

RECURSIVE ThreadParts(_, _)
ThreadParts(msgs, i) ==
    IF i > Len(msgs) THEN <<>>
    ELSE ThreadPart(i, msgs[i]) \o <<"\n\n">> \o ThreadParts(msgs, i + 1)

\* "\n\n".join(context_parts) with the current reply as the last part
ThreadContext(msgs, cleaned_body) ==
    ThreadParts(msgs, 1) \o <<"Current reply: ">> \o cleaned_body

\* Case 3: a message that is not a reply
DirectDecision(ev, is_mentioned) ==
    IF is_mentioned /\ StripMentions(Strip(ev.body), BotMentions) # <<>>
    THEN Decision(StripMentions(Strip(ev.body), BotMentions), TRUE, ev.event_id)
    ELSE IgnoreDecision

\* the answer is addressed to the replied-to message
ReplyToOtherDecision_ToAncestor(ev, is_mentioned, content) ==
    IF is_mentioned
    THEN Decision(SingleContext(OrPlaceholder(content),
                                StripMentions(Strip(ev.body), BotMentions)),
                  TRUE, ev.reply_to)
    ELSE IgnoreDecision

\* Case 2: a reply to a message that is not in bot_message_ids
ReplyToOtherDecision(ev, is_mentioned, content) ==
    IF is_mentioned
    THEN Decision(SingleContext(OrPlaceholder(content),
                                StripMentions(Strip(ev.body), BotMentions)),
                  TRUE, ev.event_id)
    ELSE IgnoreDecision

\* a reply whose original could not be fetched is not answered
SingleContextDecision_NeedsOriginal(ev, content) ==
    IF content = NotRetrieved
    THEN IgnoreDecision
    ELSE Decision(SingleContext(OrPlaceholder(content),
                                _clean_reply_content(Strip(ev.body), BotMentions)),
                  TRUE, ev.event_id)

\* Case 1 with the single-message context: mention mode, and the fallbacks
\* of watch mode
SingleContextDecision(ev, content) ==
    Decision(SingleContext(OrPlaceholder(content),
                           _clean_reply_content(Strip(ev.body), BotMentions)),
             TRUE, ev.event_id)

\* a reply whose thread is empty is not answered
ThreadDecision_NoFallback(ev, content, msgs) ==
    IF msgs # <<>>
    THEN Decision(ThreadContext(msgs, _clean_reply_content(Strip(ev.body), BotMentions)),
                  TRUE, ev.event_id)
    ELSE IgnoreDecision

\* Case 1 in watch mode, once _get_thread_context has returned msgs
ThreadDecision(ev, content, msgs) ==
    IF msgs # <<>>
    THEN Decision(ThreadContext(msgs, _clean_reply_content(Strip(ev.body), BotMentions)),
                  TRUE, ev.event_id)
    ELSE SingleContextDecision(ev, content)

\* the ignore mode gives way to a mention
ReplyToBotIgnored_MentionWins(behavior, is_mentioned) ==
    behavior \in {"ignore", "mention"} /\ ~is_mentioned

\* Case 1 is left without a context or a thread traversal
ReplyToBotIgnored(behavior, is_mentioned) ==
    \/ behavior = "ignore"
    \/ behavior = "mention" /\ ~is_mentioned

\* is_reply_to_bot = original_event_id in self.bot_message_ids
IsReplyToBot(original_id) == original_id \in bot_message_ids

\* Case 1 is entered as if the sender of the fetched event decided it
InCase1_BySender(registered, fetched_sender) ==
    registered \/ fetched_sender = "bot"

\* Case 1: if is_reply and is_reply_to_bot
InCase1(registered, fetched_sender) == registered

(***************************************************************************)
(* message_callback from the return of _should_respond to its next await.  *)
(***************************************************************************)
\* the timer is set by every decision
AfterDecision_TimerAlways(d, entered_at) ==
    /\ question' = d.question
    /\ should_respond' = d.should_respond
    /\ reply_to_event_id' = d.reply_to_event_id
    /\ last_message_time' = entered_at
    /\ IF d.should_respond /\ d.question # <<>>
       THEN /\ pc' = "typing_on"
            /\ outcome' = "responding"
       ELSE /\ pc' = "done"
            /\ outcome' = "ignored"

\* the answer is produced whatever was decided
AfterDecision_AlwaysAnswers(d, entered_at) ==
    /\ question' = d.question
    /\ should_respond' = d.should_respond
    /\ reply_to_event_id' = d.reply_to_event_id
    /\ last_message_time' = entered_at
    /\ pc' = "typing_on"
    /\ outcome' = IF d.should_respond /\ d.question # <<>>
                  THEN "responding" ELSE "ignored"

AfterDecision(d, entered_at) ==
    /\ question' = d.question
    /\ should_respond' = d.should_respond
    /\ reply_to_event_id' = d.reply_to_event_id
    /\ IF d.should_respond /\ d.question # <<>>
       THEN /\ last_message_time' = entered_at
            /\ pc' = "typing_on"
            /\ outcome' = "responding"
       ELSE /\ last_message_time' = last_message_time
            /\ pc' = "done"
            /\ outcome' = "ignored"

\* an early return of message_callback
Dropped(why) ==
    /\ pc' = "done"
    /\ outcome' = why
    /\ UNCHANGED <<last_message_time, decisionVars>>

\* the list is returned in the order of the traversal
ReverseSeq_AsCollected(q) == q

\* thread_messages.reverse()
ReverseSeq(q) == [i \in 1..Len(q) |-> q[Len(q) + 1 - i]]

(***************************************************************************)
(* start(): the clock is read before the login and again after the initial *)
(* sync; events are delivered during the initial sync and by sync_forever. *)
(***************************************************************************)
Start ==
    /\ entry = "message_callback"
    /\ phase = "constructed"
    /\ phase' = "initial_sync"
    /\ start_time' = now
    /\ UNCHANGED <<cfgVars, llmVars, searchVars, overlapVars, bot_message_ids, last_message_time, envVars, pc,
                   localVars, threadVars, decisionVars, outcome, ioVars>>

InitialSyncDone ==
    /\ phase = "initial_sync"
    /\ pc = "idle"
    /\ phase' = "running"
    /\ start_time' = now
    /\ UNCHANGED <<cfgVars, llmVars, searchVars, overlapVars, bot_message_ids, last_message_time, envVars, pc,
                   localVars, threadVars, decisionVars, outcome, ioVars>>

\* the clock is read by start() and when the callback is entered; the time
\* that passes while the callback is suspended is counted once it has returned
Tick ==
    /\ entry = "message_callback"
    /\ pc = "idle"
    /\ now < MaxTime
    /\ now' = now + 1
    /\ UNCHANGED <<cfgVars, llmVars, searchVars, overlapVars, botVars, last_id, server, sent_ids, entry, pc,
                   localVars, threadVars, decisionVars, outcome, ioVars>>

(***************************************************************************)
(* message_callback up to its first await: the gates, the mention check    *)
(* and, for a message that is not a reply, the whole decision.             *)
(***************************************************************************)
\* the check of the sender is missing
SenderIsBot_Never(ev) == FALSE

SenderIsBot(ev) == ev.sender = "bot"

IsOld(ev) ==
    /\ start_time # 0
    /\ ev.server_timestamp # 0
    /\ ev.server_timestamp < start_time

\* the gate is open at all times
RateLimited_Open(t) == FALSE

\* current_time - self.last_message_time < self.config.bot_rate_limit_seconds
RateLimited(t) == t - last_message_time < BotRateLimit

HandleEvent(ev) ==
    /\ entry = "message_callback"
    /\ phase \in {"initial_sync", "running"}
    /\ pc = "idle"
    /\ Fresh(ev.event_id)
    /\ ev.reply_to \in {NoId, Malformed} \/ Exists(ev.reply_to)
    /\ Renders(ev.body, ev.formatted_body)
    /\ Typed(ev.is_text, ev.body, ev.formatted_body)
    /\ Stamped(ev.body, ev.formatted_body, ev.server_timestamp)
    /\ last_id' = ev.event_id
    /\ server' = [server EXCEPT ![ev.event_id] =
                      ServerEvent(ev.sender, ev.is_text, ev.reply_to)]
    /\ event' = ev
    /\ current_time' = now
    /\ fetches' = 0
    /\ generations' = 0
    /\ sends' = 0
    /\ sent_reply_to' = NoId
    /\ original_fetch' = "none"
    /\ original_sender' = "none"
    /\ replied_to_content' = NoneText
    /\ UNCHANGED <<cfgVars, llmVars, searchVars, overlapVars, phase, start_time, bot_message_ids, now, sent_ids,
                   entry, threadVars, typing, pending_exc>>
    /\ IF SenderIsBot(ev)
       THEN Dropped("own") /\ UNCHANGED <<mentioned, is_reply_to_bot>>
       ELSE IF ~ev.is_text
       THEN Dropped("not_text") /\ UNCHANGED <<mentioned, is_reply_to_bot>>
       ELSE IF IsOld(ev)
       THEN Dropped("old") /\ UNCHANGED <<mentioned, is_reply_to_bot>>
       ELSE IF RateLimited(now)
       THEN Dropped("rate_limited") /\ UNCHANGED <<mentioned, is_reply_to_bot>>
       ELSE LET m == _check_message_mentions_bot(Strip(ev.body), BotMentions,
                                                 ev.formatted_body)
            IN /\ mentioned' = m
               /\ IF ev.reply_to = Malformed
                  THEN /\ is_reply_to_bot' = FALSE
                       /\ pc' = "typing_off_error"
                       /\ outcome' = "deciding"
                       /\ UNCHANGED <<last_message_time, decisionVars>>
                  ELSE IF ev.reply_to # NoId
                  THEN /\ is_reply_to_bot' = IsReplyToBot(ev.reply_to)
                       /\ pc' = "fetch_original"
                       /\ outcome' = "deciding"
                       /\ UNCHANGED <<last_message_time, decisionVars>>
                  ELSE /\ is_reply_to_bot' = FALSE
                       /\ AfterDecision(DirectDecision(ev, m), now)

\* origin_server_ts of an event: 0 (which Python takes as false, as it does a
\* missing one), before start_time, or the present.  Only its order relative
\* to start_time is read.
Timestamps == {t \in {0, start_time - 1, now} : t >= 0}

\* the events the sync loop hands to the callback
IncomingEvents ==
    [event_id : {last_id + 1}, sender : Senders, is_text : BOOLEAN, body : Bodies,
     formatted_body : FormattedBodies, reply_to : Ids \cup {NoId, Malformed},
     server_timestamp : Timestamps]

Deliver ==
    /\ pc = "idle"
    /\ \E ev \in IncomingEvents : HandleEvent(ev)

(***************************************************************************)
(* matrix_client.room_get_event: the answer to a fetch of id.  An event    *)
(* nothing is known about yet is determined by its first successful fetch. *)
(***************************************************************************)
ServerEvents == [sender : Senders, is_text : BOOLEAN, reply_to : Ids \cup {NoId}]

\* the event e is what the room holds under id, as far as it has been seen
Consistent(id, e, reads_relation) ==
    /\ Exists(id)
    /\ e.is_text \/ e.sender = "user"
    /\ id \in sent_ids => e.sender = "bot"
    /\ server[id] # NoEvent =>
           /\ e.sender = server[id].sender
           /\ e.is_text = server[id].is_text
    /\ IF reads_relation
       THEN /\ e.reply_to = NoId \/ Exists(e.reply_to)
            /\ server[id] # NoEvent /\ server[id].reply_to # NotRead =>
                   e.reply_to = server[id].reply_to
       ELSE e.reply_to = NoId

\* what is known of the event once it was fetched
Seen(id, e, reads_relation) ==
    IF reads_relation THEN e
    ELSE IF server[id] = NoEvent THEN [e EXCEPT !.reply_to = NotRead]
    ELSE server[id]

\* reads_relation: the caller reads the m.in_reply_to of the fetched event
Fetched(id, outc, e, reads_relation) ==
    /\ outc \in FetchOutcomes
    /\ IF outc = "ok"
       THEN /\ e \in ServerEvents
            /\ Consistent(id, e, reads_relation)
            /\ server' = [server EXCEPT ![id] = Seen(id, e, reads_relation)]
       ELSE /\ e = NoEvent
            /\ server' = server

\* event.body, or the note that stands for an event that is not a text
ContentOf(id, e) == IF e.is_text THEN BodyOf(id) ELSE NonTextContent

(***************************************************************************)
(* _get_thread_context: one iteration of the loop, from the return of its  *)
(* fetch to the next fetch or to the return of the reversed list.          *)
(***************************************************************************)
\* the limit is passed by two hops
LoopContinues_TwoMore(next_event_id, d, limit) ==
    /\ next_event_id # NoId
    /\ d < limit + 2

\* one message too many
LoopContinues_OffByOne(next_event_id, d, limit) ==
    /\ next_event_id # NoId
    /\ d <= limit

\* while current_event_id and depth < max_depth
LoopContinues(next_event_id, d, limit) ==
    /\ next_event_id # NoId
    /\ d < limit

ThreadMessage(id, e) ==
    [content |-> ContentOf(id, e), event_id |-> id, sender |-> e.sender,
     is_bot_message |-> id \in bot_message_ids]

\* thread_messages.reverse(); return thread_messages
ThreadReturn(msgs) ==
    /\ thread_messages' = ReverseSeq(msgs)
    /\ IF entry = "_get_thread_context"
       THEN /\ pc' = "returned"
            /\ outcome' = "returned"
            /\ UNCHANGED <<last_message_time, decisionVars>>
       ELSE AfterDecision(ThreadDecision(event, replied_to_content, ReverseSeq(msgs)),
                          current_time)

\* a failed fetch loses what was collected
ThreadFetch_DropsOnFailure(outc, e) ==
    /\ pc = "thread_fetch"
    /\ Fetched(current_event_id, outc, e, TRUE)
    /\ fetches' = fetches + 1
    /\ UNCHANGED <<cfgVars, llmVars, searchVars, overlapVars, phase, start_time, bot_message_ids, now, last_id,
                   sent_ids, entry, localVars, max_depth, typing, pending_exc,
                   generations, sends, sent_reply_to>>
    /\ IF outc = "ok"
       THEN LET msgs == Append(thread_messages, ThreadMessage(current_event_id, e))
            IN /\ depth' = depth + 1
               /\ current_event_id' = e.reply_to
               /\ IF LoopContinues(e.reply_to, depth + 1, max_depth)
                  THEN /\ thread_messages' = msgs
                       /\ pc' = "thread_fetch"
                       /\ UNCHANGED <<last_message_time, decisionVars, outcome>>
                  ELSE ThreadReturn(msgs)
       ELSE /\ UNCHANGED <<depth, current_event_id>>
            /\ ThreadReturn(<<>>)

ThreadFetch(outc, e) ==
    /\ pc = "thread_fetch"
    /\ Fetched(current_event_id, outc, e, TRUE)
    /\ fetches' = fetches + 1
    /\ UNCHANGED <<cfgVars, llmVars, searchVars, overlapVars, phase, start_time, bot_message_ids, now, last_id,
                   sent_ids, entry, localVars, max_depth, typing, pending_exc,
                   generations, sends, sent_reply_to>>
    /\ IF outc = "ok"
       THEN LET msgs == Append(thread_messages, ThreadMessage(current_event_id, e))
            IN /\ depth' = depth + 1
               /\ current_event_id' = e.reply_to
               /\ IF LoopContinues(e.reply_to, depth + 1, max_depth)
                  THEN /\ thread_messages' = msgs
                       /\ pc' = "thread_fetch"
                       /\ UNCHANGED <<last_message_time, decisionVars, outcome>>
                  ELSE ThreadReturn(msgs)
       ELSE /\ UNCHANGED <<depth, current_event_id>>
            /\ ThreadReturn(thread_messages)

ThreadStep ==
    /\ pc = "thread_fetch"
    /\ \E outc \in FetchOutcomes, e \in ServerEvents \cup {NoEvent} :
           ThreadFetch(outc, e)

(***************************************************************************)
(* _should_respond from the return of the fetch of the replied-to event.   *)
(***************************************************************************)
FetchOriginal(outc, e) ==
    /\ pc = "fetch_original"
    /\ Fetched(event.reply_to, outc, e, FALSE)
    /\ fetches' = fetches + 1
    /\ original_fetch' = outc
    /\ original_sender' = e.sender
    /\ LET content == IF outc = "ok" THEN ContentOf(event.reply_to, e)
                      ELSE NotRetrieved
       IN /\ replied_to_content' = content
          /\ IF InCase1(is_reply_to_bot, e.sender)
             THEN IF ReplyToBotIgnored(bot_reply_behavior, mentioned)
                  THEN /\ AfterDecision(IgnoreDecision, current_time)
                       /\ UNCHANGED threadVars
                  ELSE IF bot_reply_behavior = "watch" /\ bot_thread_depth_limit # 0
                  THEN /\ thread_messages' = <<>>
                       /\ current_event_id' = event.reply_to
                       /\ depth' = 0
                       /\ max_depth' = bot_thread_depth_limit
                       /\ pc' = "thread_fetch"
                       /\ UNCHANGED <<last_message_time, decisionVars, outcome>>
                  ELSE /\ AfterDecision(SingleContextDecision(event, content),
                                        current_time)
                       /\ UNCHANGED threadVars
             ELSE /\ AfterDecision(ReplyToOtherDecision(event, mentioned, content),
                                   current_time)
                  /\ UNCHANGED threadVars
    /\ UNCHANGED <<cfgVars, llmVars, searchVars, overlapVars, phase, start_time, bot_message_ids, now, last_id,
                   sent_ids, entry, event, current_time, mentioned,
                   is_reply_to_bot, typing, pending_exc, generations, sends,
                   sent_reply_to>>

FetchOriginalStep ==
    /\ pc = "fetch_original"
    /\ \E outc \in FetchOutcomes, e \in ServerEvents \cup {NoEvent} :
           FetchOriginal(outc, e)

(***************************************************************************)
(* message_callback after a decision to respond: typing notice, answer     *)
(* generation, send, registration of the sent id, typing notice off.       *)
(***************************************************************************)
\* await self.matrix_client.room_typing(room.room_id, True)
TypingOn(outc) ==
    /\ pc = "typing_on"
    /\ IF outc = "ok"
       THEN /\ typing' = TRUE
            /\ pc' = "generate"
       ELSE /\ typing' = typing
            /\ pc' = "typing_off_error"
    /\ UNCHANGED <<cfgVars, llmVars, searchVars, overlapVars, botVars, envVars, localVars, threadVars,
                   decisionVars, outcome, pending_exc, fetches, generations,
                   sends, sent_reply_to>>

\* answer = await self._process_question(question), which never raises
Generate ==
    /\ pc = "generate"
    /\ generations' = generations + 1
    /\ pc' = "send"
    /\ UNCHANGED <<cfgVars, llmVars, searchVars, overlapVars, botVars, envVars, localVars, threadVars,
                   decisionVars, outcome, typing, pending_exc, fetches, sends,
                   sent_reply_to>>

\* the returned id is not kept
Registered_Forgotten(new_id) == bot_message_ids

\* the ids added to bot_message_ids by a send that returned new_id
Registered(new_id) == bot_message_ids \cup {new_id}

\* the send is not followed by the finally clause
Send_NoFinally(outc, new_id) ==
    /\ pc = "send"
    /\ sends' = sends + 1
    /\ sent_reply_to' = reply_to_event_id
    /\ pc' = "done"
    /\ Fresh(new_id)
    /\ last_id' = new_id
    /\ server' = [server EXCEPT ![new_id] =
                      ServerEvent("bot", TRUE, reply_to_event_id)]
    /\ sent_ids' = sent_ids \cup {new_id}
    /\ bot_message_ids' = Registered(new_id)
    /\ pending_exc' = FALSE
    /\ UNCHANGED <<cfgVars, llmVars, searchVars, overlapVars, phase, start_time, last_message_time, now, entry,
                   localVars, threadVars, decisionVars, outcome, typing,
                   fetches, generations>>

\* response = await self.matrix_client.room_send(...)
Send(outc, new_id) ==
    /\ pc = "send"
    /\ sends' = sends + 1
    /\ sent_reply_to' = reply_to_event_id
    /\ pc' = "typing_off"
    /\ IF outc = "ok"
       THEN /\ Fresh(new_id)
            /\ last_id' = new_id
            /\ server' = [server EXCEPT ![new_id] =
                              ServerEvent("bot", TRUE, reply_to_event_id)]
            /\ sent_ids' = sent_ids \cup {new_id}
            /\ bot_message_ids' = Registered(new_id)
            /\ pending_exc' = FALSE
       ELSE /\ new_id = NoId
            /\ pending_exc' = (outc = "raise")
            /\ UNCHANGED <<last_id, server, sent_ids, bot_message_ids>>
    /\ UNCHANGED <<cfgVars, llmVars, searchVars, overlapVars, phase, start_time, last_message_time, now, entry,
                   localVars, threadVars, decisionVars, outcome, typing,
                   fetches, generations>>

SendStep ==
    /\ pc = "send"
    /\ \E outc \in FetchOutcomes, new_id \in {last_id + 1, NoId} : Send(outc, new_id)

\* finally: await self.matrix_client.room_typing(room.room_id, False)
TypingOff(outc) ==
    /\ pc = "typing_off"
    /\ typing' = IF outc = "ok" THEN FALSE ELSE typing
    /\ IF outc = "ok" /\ ~pending_exc
       THEN /\ pc' = "done"
            /\ outcome' = "answered"
       ELSE /\ pc' = "typing_off_error"
            /\ outcome' = outcome
    /\ pending_exc' = FALSE
    /\ UNCHANGED <<cfgVars, llmVars, searchVars, overlapVars, botVars, envVars, localVars, threadVars,
                   decisionVars, fetches, generations, sends, sent_reply_to>>

\* the handler of the exception lets the failure of its own call through
TypingOffError_Propagates(outc) ==
    /\ pc = "typing_off_error"
    /\ typing' = IF outc = "ok" THEN FALSE ELSE typing
    /\ pc' = IF outc = "ok" THEN "done" ELSE "crashed"
    /\ outcome' = IF outcome = "deciding" THEN "failed" ELSE "error"
    /\ UNCHANGED <<cfgVars, llmVars, searchVars, overlapVars, botVars, envVars, localVars, threadVars,
                   decisionVars, pending_exc, fetches, generations, sends,
                   sent_reply_to>>

\* except Exception: try: await room_typing(room.room_id, False) except: pass
TypingOffError(outc) ==
    /\ pc = "typing_off_error"
    /\ typing' = IF outc = "ok" THEN FALSE ELSE typing
    /\ pc' = "done"
    /\ outcome' = IF outcome = "deciding" THEN "failed" ELSE "error"
    /\ UNCHANGED <<cfgVars, llmVars, searchVars, overlapVars, botVars, envVars, localVars, threadVars,
                   decisionVars, pending_exc, fetches, generations, sends,
                   sent_reply_to>>

\* message_callback returns to the sync loop; its locals are gone
Return ==
    /\ pc = "done"
    /\ pc' = "idle"
    /\ event' = NoIncoming
    /\ current_time' = 0
    /\ mentioned' = FALSE
    /\ is_reply_to_bot' = FALSE
    /\ replied_to_content' = NoneText
    /\ original_fetch' = "none"
    /\ original_sender' = "none"
    /\ thread_messages' = <<>>
    /\ current_event_id' = NoId
    /\ depth' = 0
    /\ max_depth' = 0
    /\ question' = NoneText
    /\ should_respond' = FALSE
    /\ reply_to_event_id' = NoId
    /\ outcome' = "none"
    /\ pending_exc' = FALSE
    /\ fetches' = 0
    /\ generations' = 0
    /\ sends' = 0
    /\ sent_reply_to' = NoId
    /\ typing' = FALSE
    /\ server' = [i \in Ids |-> NoEvent]
    /\ UNCHANGED <<cfgVars, llmVars, searchVars, overlapVars, botVars, now, last_id, sent_ids, entry>>

Next ==
    \/ Start
    \/ InitialSyncDone
    \/ Tick
    \/ Deliver
    \/ FetchOriginalStep
    \/ ThreadStep
    \/ \E outc \in CallOutcomes : TypingOn(outc)
    \/ Generate
    \/ SendStep
    \/ \E outc \in CallOutcomes : TypingOff(outc)
    \/ \E outc \in CallOutcomes : TypingOffError(outc)
    \/ Return

Spec == Init /\ [][Next]_vars

(***************************************************************************)
(* _get_thread_context called on its own, on any reply graph, from any     *)
(* start id and with any depth limit.                                      *)
(***************************************************************************)
InitThread ==
    /\ environ = NoEnviron
    /\ ToolsIdle
    /\ bot_reply_behavior = "watch"
    /\ bot_thread_depth_limit = 0
    /\ phase = "running"
    /\ start_time = 1
    /\ bot_message_ids \in {{}, {1, 2}}
    /\ last_message_time = 0
    /\ now = 1
    /\ last_id = NumNew
    /\ server = [i \in Ids |-> NoEvent]
    /\ sent_ids = bot_message_ids
    /\ entry = "_get_thread_context"
    /\ pc = "thread_fetch"
    /\ event = NoIncoming
    /\ current_time = 0
    /\ mentioned = FALSE
    /\ is_reply_to_bot = FALSE
    /\ replied_to_content = NoneText
    /\ original_fetch = "none"
    /\ original_sender = "none"
    /\ thread_messages = <<>>
    /\ current_event_id \in Ids
    /\ depth = 0
    /\ max_depth \in 1..MaxThreadDepth
    /\ question = NoneText
    /\ should_respond = FALSE
    /\ reply_to_event_id = NoId
    /\ outcome = "none"
    /\ typing = FALSE
    /\ pending_exc = FALSE
    /\ fetches = 0
    /\ generations = 0
    /\ sends = 0
    /\ sent_reply_to = NoId
    /\ waiting = {}
    /\ answered_at = {}

NextThread == ThreadStep

SpecThread == InitThread /\ [][NextThread]_vars

\* a fetch that was issued returns: the client's request timeout ends it
FairSpecThread == SpecThread /\ WF_vars(NextThread)

(***************************************************************************)
(* message_callback entered again while earlier invocations are suspended  *)
(* at the fetch of _should_respond: each invocation read the clock and     *)
(* passed the gates when it was entered, and assigns last_message_time     *)
(* after its fetch has returned.                                           *)
(***************************************************************************)
Invocation(ev, entered_at, is_mentioned, registered) ==
    [event |-> ev, entered_at |-> entered_at, mentioned |-> is_mentioned,
     is_reply_to_bot |-> registered]

\* if should_respond and question: self.last_message_time = current_time
Answering(d, ev, entered_at) ==
    IF d.should_respond /\ d.question # <<>>
    THEN /\ last_message_time' = entered_at
         /\ answered_at' = answered_at \cup
                               {[event_id |-> ev.event_id, entered_at |-> entered_at]}
    ELSE UNCHANGED <<last_message_time, answered_at>>

\* message_callback from its entry to the fetch of _should_respond, or to its
\* return when there is nothing to fetch
Enter(ev) ==
    /\ Fresh(ev.event_id)
    /\ ev.reply_to \in {NoId, Malformed} \/ Exists(ev.reply_to)
    /\ Renders(ev.body, ev.formatted_body)
    /\ Typed(ev.is_text, ev.body, ev.formatted_body)
    /\ Stamped(ev.body, ev.formatted_body, ev.server_timestamp)
    /\ last_id' = ev.event_id
    /\ IF \/ SenderIsBot(ev)
          \/ ~ev.is_text
          \/ IsOld(ev)
          \/ RateLimited(now)
          \/ ev.reply_to = Malformed
       THEN UNCHANGED <<last_message_time, overlapVars>>
       ELSE LET m == _check_message_mentions_bot(Strip(ev.body), BotMentions,
                                                 ev.formatted_body)
            IN IF ev.reply_to # NoId
               THEN /\ waiting' = waiting \cup
                          {Invocation(ev, now, m, IsReplyToBot(ev.reply_to))}
                    /\ UNCHANGED <<last_message_time, answered_at>>
               ELSE /\ Answering(DirectDecision(ev, m), ev, now)
                    /\ waiting' = waiting
    /\ UNCHANGED <<cfgVars, llmVars, searchVars, phase, start_time, bot_message_ids, now, server,
                   sent_ids, entry, pc, localVars, threadVars, decisionVars,
                   outcome, ioVars>>

EnterStep ==
    /\ entry = "overlap"
    /\ \E ev \in IncomingEvents : Enter(ev)

\* _should_respond of a suspended invocation from the return of its fetch,
\* and message_callback up to the assignment of last_message_time
Resume(h, outc) ==
    /\ h \in waiting
    /\ waiting' = waiting \ {h}
    /\ LET content == IF outc = "ok" THEN BodyOf(h.event.reply_to)
                      ELSE NotRetrieved
           d == IF InCase1(h.is_reply_to_bot, "user")
                THEN IF ReplyToBotIgnored(bot_reply_behavior, h.mentioned)
                     THEN IgnoreDecision
                     ELSE SingleContextDecision(h.event, content)
                ELSE ReplyToOtherDecision(h.event, h.mentioned, content)
       IN Answering(d, h.event, h.entered_at)
    /\ UNCHANGED <<cfgVars, llmVars, searchVars, phase, start_time, bot_message_ids, envVars, pc,
                   localVars, threadVars, decisionVars, outcome, ioVars>>

ResumeStep ==
    \E h \in waiting, outc \in FetchOutcomes : Resume(h, outc)

\* the clock goes on while invocations are suspended
TickOverlap ==
    /\ entry = "overlap"
    /\ now < MaxTime
    /\ now' = now + 1
    /\ UNCHANGED <<cfgVars, llmVars, searchVars, botVars, last_id, server, sent_ids, entry, pc,
                   localVars, threadVars, decisionVars, outcome, ioVars,
                   overlapVars>>

\* the bot is running; the message with id 1 is in the room, sent by the bot
\* (and registered) or by a user
InitOverlap ==
    /\ environ = NoEnviron
    /\ ToolsIdle
    /\ bot_reply_behavior \in ReplyBehaviors
    /\ bot_thread_depth_limit = 0
    /\ phase = "running"
    /\ start_time = 1
    /\ bot_message_ids \in {{}, {1}}
    /\ last_message_time = 0
    /\ now = 1
    /\ last_id = 1
    /\ server = [i \in Ids |-> NoEvent]
    /\ sent_ids = bot_message_ids
    /\ entry = "overlap"
    /\ LocalsInit

NextOverlap ==
    \/ EnterStep
    \/ ResumeStep
    \/ TickOverlap

SpecOverlap == InitOverlap /\ [][NextOverlap]_vars

(***************************************************************************)
(* main(): Config() reads the environment, AskaosusBot(config) is built    *)
(* from it and started.  Config sets no bot_thread_depth_limit.            *)
(***************************************************************************)
InitConfig ==
    /\ environ \in Environs
    /\ ToolsIdle
    /\ bot_reply_behavior = Unset
    /\ bot_thread_depth_limit = 0
    /\ phase = "unloaded"
    /\ start_time = 0
    /\ bot_message_ids = {}
    /\ last_message_time = 0
    /\ now = 1
    /\ last_id = 0
    /\ server = [i \in Ids |-> NoEvent]
    /\ sent_ids = {}
    /\ entry = "main"
    /\ LocalsInit

\* config = Config(): __init__ and _validate; a ValueError ends main()
LoadConfig ==
    /\ entry = "main"
    /\ phase = "unloaded"
    /\ LET value == LowerName(GetEnv(environ.BOT_REPLY_BEHAVIOR, "mention"))
       IN IF ValidReplyBehavior(value)
          THEN /\ bot_reply_behavior' = value
               /\ phase' = "loaded"
          ELSE /\ bot_reply_behavior' = Unset
               /\ phase' = "config_error"
    /\ UNCHANGED <<llmVars, searchVars, environ, bot_thread_depth_limit, start_time, bot_message_ids,
                   last_message_time, envVars, pc, localVars, threadVars,
                   decisionVars, outcome, ioVars, overlapVars>>

\* bot = AskaosusBot(config); the environment is not read again
Construct ==
    /\ entry = "main"
    /\ phase = "loaded"
    /\ phase' = "constructed"
    /\ entry' = "message_callback"
    /\ environ' = NoEnviron
    /\ start_time' = 0
    /\ bot_message_ids' = {}
    /\ last_message_time' = 0
    /\ UNCHANGED <<llmVars, searchVars, bot_reply_behavior, bot_thread_depth_limit, now, last_id,
                   server, sent_ids, pc, localVars, threadVars, decisionVars,
                   outcome, ioVars, overlapVars>>

\* the steps of the bot; without the attribute _get_thread_context is not
\* called
NextConfig ==
    \/ LoadConfig
    \/ Construct
    \/ Start
    \/ InitialSyncDone
    \/ Tick
    \/ Deliver
    \/ FetchOriginalStep
    \/ \E outc \in CallOutcomes : TypingOn(outc)
    \/ Generate
    \/ SendStep
    \/ \E outc \in CallOutcomes : TypingOff(outc)
    \/ \E outc \in CallOutcomes : TypingOffError(outc)
    \/ Return

SpecConfig == InitConfig /\ [][NextConfig]_vars

(***************************************************************************)
(* LLMClient.process_question_with_tools called on its own, against a      *)
(* model that may reply anything.                                          *)
(***************************************************************************)
\* response_config.get_error_message(key)
NoResultsFound == <<"no_results_found">>
ProcessingError == <<"processing_error">>
FallbackError == <<"fallback_error">>

\* config.utm_tags and config.add_utm_tags_to_url
UtmTags == <<"utm_source=bot">>
AddUtmTags(url) == IF UtmTags = <<>> THEN url ELSE url \o <<"?">> \o UtmTags

\* f"{message}\n\n{url_with_utm}"
SendLinkResponse == <<"message", "\n\n">> \o AddUtmTags(<<"url">>)

\* the tool calls of a reply: the function named, and whether
\* json.loads(arguments) gives a dict
ToolNames == {"search_discourse", "send_link", "no_result_message", "other_tool"}
ToolCalls == [name : ToolNames, valid : BOOLEAN]

\* message.content: None or "", blanks only, a text
Contents == {<<>>, <<" ">>, <<"text">>}

Replies ==
    [content : Contents,
     tool_calls : UNION {[1..k -> ToolCalls] : k \in 0..MaxToolCalls}]

ToolsResult(attempts, final, done, raised) ==
    [search_attempts |-> attempts, final_response |-> final, searches |-> done,
     raised |-> raised]

\* every search that is asked for is run
RunToolCalls_NoBudget(calls, attempts, done, limit) ==
    ToolsResult(attempts + Len(calls), NoneText, done + Len(calls), FALSE)

\* for tool_call in message.tool_calls: ... up to the break, the end of the
\* list or an exception
RECURSIVE RunToolCalls(_, _, _, _)
RunToolCalls(calls, attempts, done, limit) ==
    IF calls = <<>> THEN ToolsResult(attempts, NoneText, done, FALSE)
    ELSE LET call == Head(calls)
         IN IF ~call.valid THEN ToolsResult(attempts, NoneText, done, TRUE)
            ELSE IF call.name = "search_discourse"
            THEN IF attempts >= limit
                 THEN ToolsResult(attempts, NoResultsFound, done, FALSE)
                 ELSE RunToolCalls(Tail(calls), attempts + 1, done + 1, limit)
            ELSE IF call.name = "send_link"
            THEN ToolsResult(attempts, SendLinkResponse, done, FALSE)
            ELSE IF call.name = "no_result_message"
            THEN ToolsResult(attempts, NoResultsFound, done, FALSE)
            ELSE RunToolCalls(Tail(calls), attempts, done, limit)

\* an empty final response is returned as it is
AnswerOf_NoFallback(final) == final

\* if not final_response: final_response = get_error_message("fallback_error")
AnswerOf(final) == IF final # <<>> THEN final ELSE FallbackError

InitLLM ==
    /\ environ = NoEnviron
    /\ bot_reply_behavior = "mention"
    /\ bot_thread_depth_limit = 0
    /\ phase = "running"
    /\ start_time = 1
    /\ bot_message_ids = {}
    /\ last_message_time = 0
    /\ now = 1
    /\ last_id = 1
    /\ server = [i \in Ids |-> NoEvent]
    /\ sent_ids = {}
    /\ entry = "process_question_with_tools"
    /\ pc = "llm_start"
    /\ event = NoIncoming
    /\ current_time = 0
    /\ mentioned = FALSE
    /\ is_reply_to_bot = FALSE
    /\ replied_to_content = NoneText
    /\ original_fetch = "none"
    /\ original_sender = "none"
    /\ thread_messages = <<>>
    /\ current_event_id = NoId
    /\ depth = 0
    /\ max_depth = 0
    /\ question = <<"b">>
    /\ should_respond = TRUE
    /\ reply_to_event_id = 1
    /\ outcome = "responding"
    /\ typing = TRUE
    /\ pending_exc = FALSE
    /\ fetches = 0
    /\ generations = 1
    /\ sends = 0
    /\ sent_reply_to = NoId
    /\ waiting = {}
    /\ answered_at = {}
    /\ max_search_attempts \in 0..MaxSearchAttempts
    /\ search_attempts = 0
    /\ final_response = NoneText
    /\ message = NoMessage
    /\ tool_calls_executed = FALSE
    /\ llm_calls = 0
    /\ searches = 0
    /\ answer = NoneText
    /\ bot_max_search_results = 0
    /\ query = NoQuery
    /\ strategy = 0
    /\ all_results = <<>>
    /\ seen_topic_ids = {}
    /\ response = NoResponse
    /\ final_results = <<>>

\* the function returns text
ReturnAnswer(text) ==
    /\ answer' = text
    /\ pc' = "llm_done"

\* the head of `while search_attempts < self.max_search_attempts`
NextModelCall(attempts, final) ==
    IF attempts < max_search_attempts
    THEN /\ pc' = "llm_call"
         /\ answer' = answer
    ELSE ReturnAnswer(AnswerOf(final))

\* process_question_with_tools up to its first model call
ProcessQuestion ==
    /\ entry = "process_question_with_tools"
    /\ pc = "llm_start"
    /\ search_attempts' = 0
    /\ final_response' = NoneText
    /\ tool_calls_executed' = FALSE
    /\ NextModelCall(0, NoneText)
    /\ UNCHANGED <<cfgVars, searchVars, botVars, envVars, localVars, threadVars,
                   decisionVars, outcome, ioVars, overlapVars,
                   max_search_attempts, message, llm_calls, searches>>

\* from the return of chat.completions.create to the next model call or to
\* the return of the function
ModelReply(outc, reply) ==
    /\ entry = "process_question_with_tools"
    /\ pc = "llm_call"
    /\ llm_calls < MaxModelCalls
    /\ llm_calls' = llm_calls + 1
    /\ IF outc # "ok"
       THEN /\ ReturnAnswer(ProcessingError)
            /\ UNCHANGED <<search_attempts, final_response, message,
                           tool_calls_executed, searches>>
       ELSE /\ message' = reply
            /\ IF reply.tool_calls # <<>>
               THEN LET r == RunToolCalls(reply.tool_calls, search_attempts, 0,
                                          max_search_attempts)
                    IN /\ tool_calls_executed' = TRUE
                       /\ search_attempts' = r.search_attempts
                       /\ searches' = searches + r.searches
                       /\ final_response' = r.final_response
                       /\ IF r.raised THEN ReturnAnswer(ProcessingError)
                          ELSE IF r.final_response # <<>>
                          THEN ReturnAnswer(r.final_response)
                          ELSE NextModelCall(r.search_attempts, r.final_response)
               ELSE /\ final_response' = Strip(reply.content)
                    /\ ReturnAnswer(AnswerOf(Strip(reply.content)))
                    /\ UNCHANGED <<search_attempts, tool_calls_executed, searches>>
    /\ UNCHANGED <<cfgVars, searchVars, botVars, envVars, localVars, threadVars,
                   decisionVars, outcome, ioVars, overlapVars,
                   max_search_attempts>>

ModelReplyStep ==
    /\ pc = "llm_call"
    /\ \E outc \in CallOutcomes, reply \in Replies : ModelReply(outc, reply)

NextLLM ==
    \/ ProcessQuestion
    \/ ModelReplyStep

SpecLLM == InitLLM /\ [][NextLLM]_vars

(***************************************************************************)
(* DiscourseSearcher.search: up to five requests to the forum, one per     *)
(* strategy, each followed by the removal of the topics already seen.      *)
(* A post is modelled by its topic id; 0 is a topic without id.            *)
(***************************************************************************)
ImportantTermsCap == 3
ImportantTermsSearched == 2
LastStrategy == 3 + ImportantTermsSearched

TopicIds == {0, 1, 2}

\* the "topics" lists of the bodies the forum can send
TopicLists == UNION {[1..k -> TopicIds] : k \in 0..MaxTopics}

\* what a request can come to: status 200 with a body, another status with
\* a body, or an exception of the session
Responses ==
    [status : {"ok", "status"}, topics : TopicLists]
        \cup {[status |-> "raise", topics |-> <<>>]}

\* what _extract_keywords, _get_english_equivalents and
\* _extract_important_terms find in a query: every mapped term of the query
\* is an important term as well
QueryPlans ==
    {q \in [keywords : BOOLEAN, english_terms : BOOLEAN,
            important_terms : 0..ImportantTermsCap] :
        q.english_terms => q.important_terms >= 1}

Min(a, b) == IF a <= b THEN a ELSE b

\* s[:n] of Python
Slice(s, n) ==
    IF n >= 0 THEN SubSeq(s, 1, Min(n, Len(s)))
    ELSE SubSeq(s, 1, IF Len(s) + n >= 0 THEN Len(s) + n ELSE 0)

ParseSearchResults(topics) == SelectSeq(topics, LAMBDA t : t # 0)

DeduplicateResults_AcrossOnly(results, seen) ==
    [unique |-> SelectSeq(results, LAMBDA r : r \notin seen),
     seen |-> seen \cup {results[i] : i \in 1..Len(results)}]

RECURSIVE DeduplicateResults(_, _)
DeduplicateResults(results, seen) ==
    IF results = <<>> THEN [unique |-> <<>>, seen |-> seen]
    ELSE LET result == Head(results)
         IN IF result \notin seen
            THEN LET rest == DeduplicateResults(Tail(results),
                                                seen \cup {result})
                 IN [unique |-> <<result>> \o rest.unique, seen |-> rest.seen]
            ELSE DeduplicateResults(Tail(results), seen)

PerformSearch(resp) ==
    IF resp.status = "ok" THEN ParseSearchResults(resp.topics) ELSE <<>>

\* strategy 1 is the query itself, 2 its keywords, 3 the English
\* equivalents, 4 and 5 the first two important terms
StrategyRuns(s, q) ==
    CASE s = 1 -> TRUE
      [] s = 2 -> q.keywords
      [] s = 3 -> q.english_terms
      [] OTHER -> s - 3 <= Min(q.important_terms, ImportantTermsSearched)

NextStrategy(s, q) ==
    LET later == {t \in (s + 1)..LastStrategy : StrategyRuns(t, q)}
    IN IF later = {} THEN LastStrategy + 1
       ELSE CHOOSE t \in later : \A u \in later : t <= u

InitSearch ==
    /\ environ = NoEnviron
    /\ bot_reply_behavior = "mention"
    /\ bot_thread_depth_limit = 0
    /\ phase = "running"
    /\ start_time = 1
    /\ bot_message_ids = {}
    /\ last_message_time = 0
    /\ now = 1
    /\ last_id = 1
    /\ server = [i \in Ids |-> NoEvent]
    /\ sent_ids = {}
    /\ entry = "search"
    /\ pc = "search_start"
    /\ event = NoIncoming
    /\ current_time = 0
    /\ mentioned = FALSE
    /\ is_reply_to_bot = FALSE
    /\ replied_to_content = NoneText
    /\ original_fetch = "none"
    /\ original_sender = "none"
    /\ thread_messages = <<>>
    /\ current_event_id = NoId
    /\ depth = 0
    /\ max_depth = 0
    /\ question = <<"b">>
    /\ should_respond = TRUE
    /\ reply_to_event_id = 1
    /\ outcome = "responding"
    /\ typing = TRUE
    /\ pending_exc = FALSE
    /\ fetches = 0
    /\ generations = 1
    /\ sends = 0
    /\ sent_reply_to = NoId
    /\ waiting = {}
    /\ answered_at = {}
    /\ max_search_attempts = 1
    /\ search_attempts = 0
    /\ final_response = NoneText
    /\ message = NoMessage
    /\ tool_calls_executed = TRUE
    /\ llm_calls = 1
    /\ searches = 0
    /\ answer = NoneText
    /\ bot_max_search_results \in 0..MaxSearchResults
    /\ query \in QueryPlans
    /\ strategy = 0
    /\ all_results = <<>>
    /\ seen_topic_ids = {}
    /\ response = NoResponse
    /\ final_results = <<>>

\* search() up to its first request
Search ==
    /\ entry = "search"
    /\ pc = "search_start"
    /\ all_results' = <<>>
    /\ seen_topic_ids' = {}
    /\ strategy' = 1
    /\ pc' = "search_request"
    /\ UNCHANGED <<cfgVars, llmVars, botVars, envVars, localVars, threadVars,
                   decisionVars, outcome, ioVars, overlapVars,
                   bot_max_search_results, query, response, final_results>>

\* one request is answered: search() runs up to its next request, or to its
\* return
SearchRequest(resp) ==
    /\ entry = "search"
    /\ pc = "search_request"
    /\ LET results == PerformSearch(resp)
           d == DeduplicateResults(results, seen_topic_ids)
           all == all_results \o d.unique
           next == NextStrategy(strategy, query)
       IN /\ response' = resp
          /\ all_results' = all
          /\ seen_topic_ids' = d.seen
          /\ strategy' = next
          /\ IF next > LastStrategy
             THEN /\ final_results' = Slice(all, bot_max_search_results)
                  /\ pc' = "search_done"
             ELSE UNCHANGED <<final_results, pc>>
    /\ UNCHANGED <<cfgVars, llmVars, botVars, envVars, localVars, threadVars,
                   decisionVars, outcome, ioVars, overlapVars,
                   bot_max_search_results, query>>

SearchRequestStep ==
    /\ pc = "search_request"
    /\ \E resp \in Responses : SearchRequest(resp)

NextSearch ==
    \/ Search
    \/ SearchRequestStep

SpecSearch == InitSearch /\ [][NextSearch]_vars

(***************************************************************************)
(* _check_message_mentions_bot called on its own, on any short text.       *)
(***************************************************************************)
TextChars == {"a", "A", "b", "@", " ", "\n", ">"}

\* the texts of at most MaxTextLen characters
Texts == UNION {[1..k -> TextChars] : k \in 0..MaxTextLen}

\* longer bodies: a quoted line and a line of the sender's own
SampleTexts ==
    { <<">", " ", "a", "\n", "b">>,
      <<">", " ", "b", "\n", "a">>,
      <<">", " ", "a", "\n", "@", "A", " ", "b">>,
      <<"b", "\n", " ", ">", " ", "@", "a">>,
      <<"@", "a", " ", "b">> }

\* event.formatted_body: missing, or the HTML of a short message
TextFormattedBodies ==
    { <<>>, <<"a", "b">>, <<"<", "b", ">", "A", " ", "b">>, <<">", " ", "a">>,
      <<"<", "b", ">">> }

InitText ==
    /\ environ = NoEnviron
    /\ ToolsIdle
    /\ bot_reply_behavior = "mention"
    /\ bot_thread_depth_limit = 0
    /\ phase = "running"
    /\ start_time = 1
    /\ bot_message_ids = {}
    /\ last_message_time = 0
    /\ now = 1
    /\ last_id = 1
    /\ server = [i \in Ids |-> NoEvent]
    /\ sent_ids = {}
    /\ entry = "_check_message_mentions_bot"
    /\ pc = "check_mentions"
    /\ \E body \in Texts \cup SampleTexts, formatted_body \in TextFormattedBodies :
           event = [NoIncoming EXCEPT !.event_id = 1, !.sender = "user",
                                      !.is_text = TRUE, !.body = body,
                                      !.formatted_body = formatted_body,
                                      !.server_timestamp = 1]
    /\ current_time = 0
    /\ mentioned = FALSE
    /\ is_reply_to_bot = FALSE
    /\ replied_to_content = NoneText
    /\ original_fetch = "none"
    /\ original_sender = "none"
    /\ thread_messages = <<>>
    /\ current_event_id = NoId
    /\ depth = 0
    /\ max_depth = 0
    /\ question = NoneText
    /\ should_respond = FALSE
    /\ reply_to_event_id = NoId
    /\ outcome = "none"
    /\ typing = FALSE
    /\ pending_exc = FALSE
    /\ fetches = 0
    /\ generations = 0
    /\ sends = 0
    /\ sent_reply_to = NoId
    /\ waiting = {}
    /\ answered_at = {}

\* mentioned = self._check_message_mentions_bot(message_body, bot_mentions, event)
CheckMentions ==
    /\ pc = "check_mentions"
    /\ mentioned' = _check_message_mentions_bot(event.body, BotMentions,
                                                event.formatted_body)
    /\ pc' = "checked"
    /\ UNCHANGED <<cfgVars, llmVars, searchVars, overlapVars, botVars, envVars, event, current_time,
                   is_reply_to_bot, replied_to_content, original_fetch,
                   original_sender, threadVars, decisionVars, outcome, ioVars>>

\* the results of the text steps are held in question; the decision is
\* not taken
TextStep(result, at) ==
    /\ pc = "checked"
    /\ question' = result
    /\ pc' = at
    /\ UNCHANGED <<cfgVars, llmVars, searchVars, overlapVars, botVars, envVars, event, current_time,
                   mentioned, is_reply_to_bot, replied_to_content,
                   original_fetch, original_sender, threadVars, should_respond,
                   reply_to_event_id, outcome, ioVars>>

\* the stripping loop of Case 3 on the text in hand
StripDirect == TextStep(StripMentions(event.body, BotMentions), "stripped")

\* cleaned_body = self._clean_reply_content(message_body, bot_mentions)
CleanReply == TextStep(_clean_reply_content(event.body, BotMentions), "cleaned")

\* Case 3 of _should_respond for the message in hand, which is not a reply
DecideDirect ==
    /\ pc = "checked"
    /\ event.reply_to = NoId
    /\ LET d == DirectDecision(event, mentioned)
       IN /\ question' = d.question
          /\ should_respond' = d.should_respond
          /\ reply_to_event_id' = d.reply_to_event_id
    /\ pc' = "decided"
    /\ UNCHANGED <<cfgVars, llmVars, searchVars, overlapVars, botVars, envVars, event, current_time,
                   mentioned, is_reply_to_bot, replied_to_content,
                   original_fetch, original_sender, threadVars, outcome, ioVars>>

NextText ==
    \/ CheckMentions
    \/ StripDirect
    \/ CleanReply
    \/ DecideDirect

SpecText == InitText /\ [][NextText]_vars

(***************************************************************************)
(* Properties.                                                             *)
(***************************************************************************)
\* _should_respond has returned for the event in hand
Decided == outcome \in {"ignored", "responding", "answered", "error"}

\* the event in hand went through the gates of message_callback
PastGates == outcome \in {"deciding", "ignored", "responding", "answered", "error"}

IsReply == event.reply_to # NoId

Mentions(ev) ==
    _check_message_mentions_bot(Strip(ev.body), BotMentions, ev.formatted_body)

InRegistry(id) == id \in bot_message_ids

\* C1: a reply from a sender other than the bot is answered exactly when
\* (a) the replied-to id is not registered and the message mentions the bot,
\* or (b) it is registered and the mode is watch, or mention with a mention;
\* in ignore mode a reply to a registered message is ignored even with a
\* mention.
C1_ReplyPolicy ==
    (Decided /\ IsReply /\ event.sender # "bot") =>
        (should_respond <=>
            \/ ~InRegistry(event.reply_to) /\ Mentions(event)
            \/ /\ InRegistry(event.reply_to)
               /\ \/ bot_reply_behavior = "watch"
                  \/ bot_reply_behavior = "mention" /\ Mentions(event))

C1_Witness ==
    /\ outcome = "ignored"
    /\ IsReply
    /\ InRegistry(event.reply_to)
    /\ bot_reply_behavior = "ignore"
    /\ Mentions(event)

\* C2: an event sent by the bot itself is never answered, whatever the mode,
\* its mentions or its reply relation: no fetch, no answer generation, no send.
C2_OwnMessagesDropped ==
    event.sender = "bot" =>
        /\ pc = "done"
        /\ outcome = "own"
        /\ ~should_respond
        /\ fetches = 0
        /\ generations = 0
        /\ sends = 0

C2_Witness ==
    /\ event.sender = "bot"
    /\ pc = "done"
    /\ bot_reply_behavior = "watch"
    /\ IsReply
    /\ InRegistry(event.reply_to)
    /\ Mentions(event)

\* C3: a message that is not a reply is answered when its visible content
\* mentions the bot and ignored when it does not, in every mode.
C3_DirectPolicy ==
    (Decided /\ ~IsReply) => (should_respond <=> Mentions(event))

\* C4: a decision is either Respond with a non-empty context and the id of
\* the incoming event as reply target, or Ignore with neither; what is sent
\* is addressed to the incoming event.
C4_DecisionShape ==
    /\ \/ /\ should_respond
          /\ question # <<>>
          /\ reply_to_event_id = event.event_id
          /\ reply_to_event_id # NoId
       \/ /\ ~should_respond
          /\ question = NoneText
          /\ reply_to_event_id = NoId
    /\ sends > 0 => sent_reply_to = event.event_id

C4_Witness ==
    /\ sends = 1
    /\ IsReply
    /\ sent_reply_to = event.event_id
    /\ sent_reply_to # event.reply_to

\* C5: a message that is not a reply and consists of a mention only is
\* answered, with the "mention only" placeholder as its context.
MentionOnly(ev) ==
    /\ Mentions(ev)
    /\ StripMentions(Strip(ev.body), BotMentions) = <<>>

C5_MentionOnlyAnswered ==
    (Decided /\ ~IsReply /\ MentionOnly(event)) =>
        /\ should_respond
        /\ question = <<"[mention only]">>

\* C6: the registry only grows; it is the set of the ids returned by the
\* successful sends, each send adding its id once, and nothing else changes it.
C6_RegistryIsSentIds ==
    /\ [](bot_message_ids = sent_ids)
    /\ [][/\ bot_message_ids \subseteq bot_message_ids'
          /\ bot_message_ids' # bot_message_ids =>
                /\ pc = "send"
                /\ sends' = sends + 1
                /\ Cardinality(bot_message_ids') = Cardinality(bot_message_ids) + 1
                /\ bot_message_ids' \ bot_message_ids = {last_id'}]_vars

C6_Witness ==
    /\ bot_message_ids # {}
    /\ pc = "typing_off"
    /\ pending_exc
    /\ Cardinality(bot_message_ids) = 1

Returned == pc = "returned"

ChainIds == {thread_messages[i].event_id : i \in 1..Len(thread_messages)}

NoIdTwice ==
    \A i, j \in 1..Len(thread_messages) :
        i # j => thread_messages[i].event_id # thread_messages[j].event_id

\* C8: the traversal never visits an id twice; on a cycle A -> B -> C -> A it
\* stops at the cycle and returns at most 3 messages, each id once.
C8_NoIdVisitedTwice ==
    /\ NoIdTwice
    /\ (Returned /\ Cardinality(ChainIds) <= 3) => Len(thread_messages) <= 3

\* C9: the traversal ends on every reply graph, cyclic and self-referencing
\* ones included, and for every behaviour of the fetch, after at most
\* max_depth fetches.
C9_Terminates ==
    /\ <>Returned
    /\ [](fetches <= max_depth /\ depth <= max_depth)

C9_Witness ==
    /\ Returned
    /\ fetches = max_depth
    /\ max_depth >= 3
    /\ ~NoIdTwice

\* every fetch succeeded, no id came twice, and the oldest message collected
\* replies to a message that is not in the list: a linear chain that is longer
\* than what was collected
LinearAndLonger ==
    /\ Returned
    /\ fetches = Len(thread_messages)
    /\ NoIdTwice
    /\ current_event_id # NoId
    /\ current_event_id \notin ChainIds

\* C10 as stated: on a linear chain longer than max_depth whose fetches all
\* succeed the traversal returns the start message and max_depth ancestors,
\* max_depth + 1 messages.
C10_StartPlusMaxDepth ==
    LinearAndLonger => Len(thread_messages) = max_depth + 1

\* C10 amended: on such a chain the traversal returns exactly max_depth
\* messages, the message with the start id and max_depth - 1 ancestors, and
\* on no input does it return more than max_depth messages.
C10_ExactlyMaxDepth ==
    /\ Len(thread_messages) <= max_depth
    /\ LinearAndLonger => Len(thread_messages) = max_depth

C10_Witness ==
    /\ LinearAndLonger
    /\ max_depth = 2
    /\ Len(thread_messages) = 2

\* the m.in_reply_to of the fetched event with this id
DeclaredReplyTo(id) == server[id].reply_to

\* C11: the returned list is ordered oldest-first although the traversal runs
\* newest-first: in every returned list of 2 or more messages each message's
\* m.in_reply_to is the id of the message immediately before it.
C11_OldestFirst ==
    Returned =>
        \A i \in 2..Len(thread_messages) :
            DeclaredReplyTo(thread_messages[i].event_id) =
                thread_messages[i - 1].event_id

C11_Witness ==
    /\ Returned
    /\ Len(thread_messages) = 3
    /\ NoIdTwice
    /\ DeclaredReplyTo(thread_messages[1].event_id) = NoId

\* C12: a fetch that fails at any hop (error response, missing event or
\* raised exception) ends the traversal, which returns, oldest-first, exactly
\* the messages collected before the failure; nothing is raised and no
\* collected message is dropped.
C12_PartialOnFailure ==
    /\ [](Returned =>
             /\ Len(thread_messages) = depth
             /\ fetches \in {depth, depth + 1}
             /\ ~pending_exc)
    /\ [][(pc = "thread_fetch" /\ fetches' = fetches + 1 /\ depth' = depth) =>
             /\ pc' = "returned"
             /\ thread_messages' = ReverseSeq(thread_messages)]_vars

C12_Witness ==
    /\ Returned
    /\ fetches = depth + 1
    /\ Len(thread_messages) = 2
    /\ NoIdTwice

\* whether the policy answers ev, read off the event, the registry and the
\* mode alone
RespondsByPolicy(ev) ==
    IF ev.reply_to = NoId
    THEN Mentions(ev) /\ StripMentions(Strip(ev.body), BotMentions) # <<>>
    ELSE IF InRegistry(ev.reply_to)
    THEN \/ bot_reply_behavior = "watch"
         \/ bot_reply_behavior = "mention" /\ Mentions(ev)
    ELSE Mentions(ev)

\* C13: for every incoming message, registry and mode, Respond or Ignore and
\* the reply target are the same for every outcome of the fetches (success,
\* an event that is not a text, error response, raised exception): a failed
\* fetch changes the context text only.
C13_DecisionIgnoresFetch ==
    Decided =>
        LET responds == RespondsByPolicy(event)
        IN /\ should_respond <=> responds
           /\ reply_to_event_id = IF responds THEN event.event_id ELSE NoId

C13_Witness ==
    /\ Decided
    /\ original_fetch = "raise"
    /\ InRegistry(event.reply_to)
    /\ should_respond
    /\ reply_to_event_id = event.event_id
    /\ question = SingleContext(NotRetrieved, <<"b">>)

\* the current message as it is put into a single-message context
ReplyText(ev) ==
    IF InRegistry(ev.reply_to)
    THEN _clean_reply_content(Strip(ev.body), BotMentions)
    ELSE StripMentions(Strip(ev.body), BotMentions)

\* what the room holds under the replied-to id
OriginalText(ev) ==
    IF server[ev.reply_to].is_text THEN BodyOf(ev.reply_to) ELSE NonTextContent

Failed == outcome \in {"failed", "error"}

\* C15: no exception raised by the decision logic, a fetch, the answer
\* generation or the send leaves message_callback: the exception is on its
\* way to the handler's except clause, which ends the handling; nothing more
\* is done for the failed message, the callback returns, and the next event
\* is taken as usual.
C15_ExceptionsContained ==
    /\ [](pending_exc => pc = "typing_off")
    /\ [](Failed => pc = "done")
    /\ []((pc = "idle" /\ phase # "constructed" /\ last_id < NumNew) =>
              ENABLED Deliver)
    /\ [][pc = "typing_off_error" =>
             /\ pc' = "done"
             /\ Failed'
             /\ UNCHANGED <<bot_message_ids, last_message_time, generations,
                            sends>>]_vars
    /\ [][Failed =>
             /\ pc' = "idle"
             /\ UNCHANGED <<phase, start_time, bot_message_ids,
                            last_message_time>>]_vars

C15_Witness ==
    /\ outcome = "failed"
    /\ pc = "done"
    /\ event.reply_to = Malformed
    /\ Mentions(event)
    /\ last_id = 3
    /\ bot_message_ids = {2}

\* the event in hand was dropped by one of the gates before _should_respond
DroppedEarly ==
    /\ outcome \in {"own", "not_text", "old"}
    /\ pc = "done"
    /\ fetches = 0
    /\ generations = 0
    /\ sends = 0

\* C16: every incoming message whose timestamp is less than start_time is
\* dropped before the engagement policy runs: no fetch, no answer generation
\* and no send is made for it.
C16_OldDropped ==
    (event # NoIncoming /\ event.server_timestamp < start_time) => DroppedEarly

\* _should_respond was called for the event in hand
ReachedPolicy ==
    outcome \in {"deciding", "ignored", "responding", "answered", "error",
                 "failed"}

\* C17: start_time is taken once, after the initial sync and not at the start
\* of the process, so that no message delivered while the initial sync runs
\* is passed to the engagement policy.
C17_NoPolicyDuringInitialSync ==
    phase = "initial_sync" => ~ReachedPolicy

SeparateWordAt(s, m, i) ==
    /\ LiteralAt(s, m, i)
    /\ ~WordAt(s, i - 1)
    /\ ~WordAt(s, i + Len(m))

\* some configured mention is a word of its own in the text
MentionedAsWord(content) ==
    \E k \in 1..Len(BotMentions), i \in 1..Len(content) :
        SeparateWordAt(content, BotMentions[k], i)

\* C20: mention detection is whole-word: a text whose visible content holds
\* a configured mention only inside a longer alphanumeric token does not
\* mention the bot, and a mention that is a word of its own is detected
\* whatever its case.
C20_WholeWordMentions ==
    pc = "checked" =>
        (mentioned <=>
            MentionedAsWord(ContentToCheck(event.body, event.formatted_body)))

\* some line of the text that is not a quoted line holds a configured mention
MentionOutsideQuotes(body) ==
    \E n \in 1..Len(SplitLines(body)) :
        /\ ~IsQuoteLine(SplitLines(body)[n])
        /\ AnyMention(SplitLines(body)[n], BotMentions)

\* C21: with no formatted body, a mention that occurs only on quoted lines
\* (lines whose trimmed form starts with "> ") is not detected and a mention
\* on a line that is not quoted is: the result is that of the detection on
\* the body without its quoted lines.
C21_QuotedMentionsIgnored ==
    (pc = "checked" /\ event.formatted_body = <<>>) =>
        (mentioned <=> MentionOutsideQuotes(event.body))

C21_Witness ==
    /\ pc = "checked"
    /\ event.formatted_body = <<>>
    /\ ~mentioned
    /\ AnyMention(event.body, BotMentions)
    /\ Len(SplitLines(event.body)) = 2

\* the formatted body has a rendering that is not empty
HasRendering(ev) ==
    ev.formatted_body # <<>> /\ FormattedContent(ev.formatted_body) # <<>>

\* C22: when the formatted body is present and not empty once its tags are
\* removed and its entities decoded, detection looks at that rendering only;
\* when it is absent or empty after stripping, detection looks at the raw
\* body without its quoted lines.
C22_RenderingPreferred ==
    pc = "checked" =>
        (mentioned <=>
            IF HasRendering(event)
            THEN AnyMention(FormattedContent(event.formatted_body), BotMentions)
            ELSE MentionOutsideQuotes(event.body))

\* C23: mention stripping is idempotent: stripping a text that was already
\* stripped gives the same text, for the reply cleaner and for the stripping
\* step of a direct mention.
C23_StrippingIdempotent ==
    /\ pc = "stripped" => StripMentions(question, BotMentions) = question
    /\ pc = "cleaned" => _clean_reply_content(question, BotMentions) = question

\* C24: a message that is not a reply and consists of the mention with its
\* marker followed by a question is answered, the context is the question
\* text alone, without the marker or a fragment of the mention, and the
\* answer is addressed to the message.
C24_DirectQuestionAlone ==
    (pc = "decided" /\ event.body = <<"@", "a", " ", "b">>
                    /\ event.formatted_body = <<>>) =>
        /\ should_respond
        /\ question = <<"b">>
        /\ reply_to_event_id = event.event_id

\* a reply without a mention to a registered message was decided in watch
\* mode with a resolved thread
WatchedWithThread ==
    /\ Decided
    /\ bot_reply_behavior = "watch"
    /\ InRegistry(event.reply_to)
    /\ ~Mentions(event)
    /\ thread_messages # <<>>

\* the text ends with the given part
EndsWith(s, part) ==
    /\ Len(s) >= Len(part)
    /\ SubSeq(s, Len(s) - Len(part) + 1, Len(s)) = part

\* the context is closed by the current reply and has a line of the bot
ThreadContextBody ==
    /\ should_respond
    /\ \E i \in 1..Len(question) : question[i] = "Bot"
    /\ EndsWith(question, <<"\n\n", "Current reply: ">> \o ReplyText(event))

\* C25: in watch mode a reply without a mention to a registered bot message
\* is answered; the context holds the "Conversation thread:" header, the
\* resolved ancestors oldest-first with a line labelled for the bot, and
\* "Current reply: " with the stripped text of the message as its last line.
C25_ThreadContextFormat ==
    WatchedWithThread =>
        /\ ThreadContextBody
        /\ \E i \in 1..Len(question) : question[i] = "Conversation thread:"

\* the messages with the label each sender calls for
LabelledBySender(msgs) ==
    [i \in 1..Len(msgs) |->
        [msgs[i] EXCEPT !.is_bot_message = (msgs[i].sender = "bot")]]

EnvironKnown == phase \in {"unloaded", "loaded", "config_error"}

\* Config() has returned a configuration
Loaded == phase \notin {"unloaded", "config_error"}

\* C27: the thread depth limit is 6 when BOT_THREAD_DEPTH_LIMIT is unset, a
\* value in 1..20 is accepted, a value outside it is rejected when the
\* configuration is loaded, and so the resolver always runs with a defined
\* limit between 1 and 20.
C27_DepthLimitValidated ==
    /\ Loaded => bot_thread_depth_limit \in 1..20
    /\ phase = "loaded" =>
           bot_thread_depth_limit =
               IF environ.BOT_THREAD_DEPTH_LIMIT = UnsetLimit THEN 6
               ELSE environ.BOT_THREAD_DEPTH_LIMIT
    /\ (EnvironKnown /\ phase # "unloaded"
           /\ environ.BOT_THREAD_DEPTH_LIMIT \notin 1..20 \cup {UnsetLimit}) =>
           phase = "config_error"

\* the spellings of a mode that differ in the case of their letters only
Spellings(mode) ==
    CASE mode = "ignore" -> {"ignore", "IGNORE"}
      [] mode = "mention" -> {"mention", "Mention"}
      [] mode = "watch" -> {"watch", "WATCH"}

\* the mode the environment asks for, if it asks for one
AskedFor(mode) ==
    \/ environ.BOT_REPLY_BEHAVIOR \in Spellings(mode)
    \/ environ.BOT_REPLY_BEHAVIOR = Unset /\ mode = "mention"

\* C28: the reply behaviour is always one of ignore, mention and watch: the
\* load of the configuration accepts these three values in any case of their
\* letters, takes mention when the variable is unset, rejects every other
\* value with an error, and the mode never changes after the load.
C28_ModeValidated ==
    /\ [](Loaded => bot_reply_behavior \in {"ignore", "mention", "watch"})
    /\ [](phase = "loaded" => AskedFor(bot_reply_behavior))
    /\ [](phase = "config_error" =>
             \A mode \in {"ignore", "mention", "watch"} : ~AskedFor(mode))
    /\ [][phase # "unloaded" => bot_reply_behavior' = bot_reply_behavior]_vars

C28_Witness ==
    /\ phase = "loaded"
    /\ environ.BOT_REPLY_BEHAVIOR = "WATCH"
    /\ bot_reply_behavior = "watch"

\* a reply to a registered message was decided in watch mode without a
\* thread: the collection returned no message, or the try block raised
WatchedWithoutThread ==
    /\ Decided
    /\ bot_reply_behavior = "watch"
    /\ InRegistry(event.reply_to)
    /\ thread_messages = <<>>

\* C29: in watch mode, when the thread collection returns no messages or
\* raises, a reply to a registered bot message is still answered: the
\* context is "Original message: " with the text of the ancestor or the
\* placeholder, followed by "Reply: " and the stripped current message.
C29_WatchFallback ==
    WatchedWithoutThread =>
        /\ should_respond
        /\ reply_to_event_id = event.event_id
        /\ question =
               <<"Original message: ">>
                   \o (IF original_fetch = "ok" THEN OriginalText(event)
                       ELSE <<"[Original message could not be retrieved]">>)
                   \o <<"\n\nReply: ">>
                   \o _clean_reply_content(Strip(event.body), BotMentions)

C29_Witness ==
    /\ WatchedWithoutThread
    /\ bot_thread_depth_limit > 0
    /\ original_fetch = "ok"
    /\ fetches = 2
    /\ ~Mentions(event)
    /\ generations = 1

C29_WitnessRaised ==
    /\ WatchedWithoutThread
    /\ bot_thread_depth_limit = 0
    /\ fetches = 1
    /\ generations = 1

\* C30: an incoming event causes at most one send, and a send is made only
\* after the decision for the event was Respond with a context that is not
\* empty; an event that is dropped or ignored causes no send.
C30_OneSendPerAnswer ==
    /\ sends <= 1
    /\ sends > 0 =>
           /\ should_respond
           /\ question # <<>>
           /\ outcome \in {"responding", "answered", "error"}
    /\ outcome \in {"own", "not_text", "old", "rate_limited", "ignored", "failed"}
           => sends = 0

C30_Witness ==
    /\ sends = 1
    /\ outcome = "answered"
    /\ should_respond
    /\ question # <<>>
    /\ sent_reply_to = event.event_id

AtTypingOff == pc \in {"typing_off", "typing_off_error"}

\* C32: whenever the handler has turned the typing notice on, a call that
\* turns it off is issued before the handler returns, on the path of a sent
\* answer and on every path on which the generation or the send fails.
C32_TypingOffIssued ==
    /\ [](typing => pc \in {"generate", "send", "typing_off",
                            "typing_off_error", "done"})
    /\ [][(typing /\ pc # "done" /\ pc' \in {"done", "idle"}) => AtTypingOff]_vars
    /\ [][(pc = "send" /\ pc' # "send") => (typing /\ pc' = "typing_off")]_vars
    /\ [][(pc = "generate" /\ pc' # "generate") => (typing /\ pc' = "send")]_vars

C32_Witness ==
    /\ pc = "done"
    /\ outcome = "error"
    /\ sends = 1
    /\ generations = 1
    /\ ~typing

\* C33: the fetches of one decision are bounded and sequential: a message
\* that is not a reply causes no fetch, a reply causes at most one fetch of
\* the replied-to message and at most depth-limit fetches of the thread
\* resolution, and each fetch is issued after the one before it has returned.
C33_FetchesBoundedSequential ==
    /\ fetches <= 1 + bot_thread_depth_limit
    /\ (event # NoIncoming /\ ~IsReply) => fetches = 0
    /\ pc = "fetch_original" => fetches = 0
    /\ pc = "thread_fetch" =>
           /\ fetches = 1 + depth
           /\ depth < max_depth
           /\ max_depth = bot_thread_depth_limit

C33_Witness ==
    /\ Decided
    /\ IsReply
    /\ bot_thread_depth_limit = MaxDepthLimit
    /\ fetches = 1 + bot_thread_depth_limit
    /\ Len(thread_messages) = MaxDepthLimit

\* the calls before position i neither end the loop over the tool calls nor
\* are i searches short of the budget: the search at i is asked for when
\* the budget is used up
SearchOverBudget(calls, attempts, limit) ==
    \E i \in 1..Len(calls) :
        /\ calls[i].name = "search_discourse"
        /\ \A j \in 1..(i - 1) :
               calls[j].name \notin {"send_link", "no_result_message"}
        /\ attempts
             + Cardinality({j \in 1..(i - 1) : calls[j].name = "search_discourse"})
               >= limit

\* C34: answer generation runs at most max_search_attempts forum searches
\* for a question, also when one reply of the model asks for several
\* searches; a search asked for when the budget is used up is not run and
\* the no-results message is returned.
C34_SearchBudget ==
    /\ [](searches = search_attempts /\ searches <= max_search_attempts)
    /\ [][(/\ llm_calls' = llm_calls + 1
           /\ answer' # ProcessingError
           /\ SearchOverBudget(message'.tool_calls, search_attempts,
                               max_search_attempts)) =>
             /\ pc' = "llm_done"
             /\ answer' = NoResultsFound
             /\ searches' = max_search_attempts]_vars

C34_Witness ==
    /\ pc = "llm_done"
    /\ answer = NoResultsFound
    /\ max_search_attempts = 1
    /\ searches = 1
    /\ llm_calls = 1
    /\ Len(message.tool_calls) = 2
    /\ message.tool_calls[2].name = "search_discourse"

\* C35: the tool-calling loop ends for every sequence of replies of the
\* model, after at most max_search_attempts calls of the model.
C35_TerminatesWithinBudget == llm_calls <= max_search_attempts

\* The name of the first send_link or no_result_message call of a reply,
\* "none" when the reply has neither.
FinalCall(calls) ==
    LET finals == {i \in 1..Len(calls) :
                      calls[i].name \in {"send_link", "no_result_message"}}
    IN IF finals = {} THEN "none"
       ELSE calls[CHOOSE i \in finals : \A j \in finals : i <= j].name

NoRepeat(s) == \A i, j \in 1..Len(s) : s[i] = s[j] => i = j

\* where x occurs first in s
FirstAt(s, x) ==
    CHOOSE i \in 1..Len(s) : s[i] = x /\ \A j \in 1..(i - 1) : s[j] # x

\* t holds every topic id of s once, in the order of first occurrence in s
InFirstSeenOrder(t, s) ==
    /\ NoRepeat(t)
    /\ {t[i] : i \in 1..Len(t)} = {s[i] : i \in 1..Len(s)}
    /\ \A i, j \in 1..Len(t) : i < j => FirstAt(s, t[i]) < FirstAt(s, t[j])

\* the topics with an id of a response that came with status 200
Served(resp) ==
    IF resp.status = "ok" THEN SelectSeq(resp.topics, LAMBDA t : t > 0)
    ELSE <<>>

====
